---- MODULE Spec2Model ----
(***************************************************************************)
(* Model of scripts/strip_comments.py: the three comment strippers         *)
(* (strip_html, strip_css, strip_js), process_file and the walker main.    *)
(*                                                                         *)
(* A text is a sequence of one-character strings.                          *)
(***************************************************************************)
EXTENDS Integers, Sequences, FiniteSets, TLC

\* strip_js as a machine: its argument, its locals and its return value
VARIABLES content, lines, li, i, in_sq, in_dq, in_bt, escaped, result_chars,
          out_lines, ret, pc

varsJs == <<content, lines, li, i, in_sq, in_dq, in_bt, escaped, result_chars,
            out_lines, ret, pc>>

\* process_file on one path, called again and again: the path, the file on
\* disk, the locals orig and text, the return value, the number of calls
VARIABLES path, disk, orig, text, ok, runs

varsFile == <<path, disk, orig, text, ok, runs>>

\* main: the list rglob returned, the file system, the loop index, the two
\* counters, the reads and writes done on each entry, the lines printed
VARIABLES files, fs, f, touched, changed, reads, writes, stdout, wpc
\* the file system as it was when main started
VARIABLE fs0

varsWalk == <<files, fs, fs0, f, touched, changed, reads, writes, stdout, wpc>>

vars == <<varsJs, varsFile, varsWalk>>

(***************************************************************************)
(* Bounds of the model.                                                    *)
(***************************************************************************)
\* number of tokens an input of the JS scan is built from
MaxTokens == 4
\* number of tokens an input of the stripper passes is built from
MaxStripTokens == 3
\* number of directory entries rglob returns
MaxFiles == 2

(***************************************************************************)
(* Text helpers: what the Python str / re primitives used by the script do *)
(***************************************************************************)
\* the least element of a non-empty set of integers
MinOf(S) == CHOOSE x \in S : \A y \in S : x <= y

\* s[p : p+len(m)] == m, p counted from 1
MatchAt(s, m, p) ==
    /\ p >= 1
    /\ p + Len(m) - 1 <= Len(s)
    /\ \A j \in 1..Len(m) : s[p + j - 1] = m[j]

\* leftmost position >= from at which m occurs in s, 0 when there is none
Find(s, m, from) ==
    LET P == {p \in from..(Len(s) - Len(m) + 1) : MatchAt(s, m, p)}
    IN  IF P = {} THEN 0 ELSE MinOf(P)

\* re.sub(open .*? close, "", s, flags=re.S) from position pos on:
\* leftmost, shortest, non-overlapping matches are removed
RECURSIVE ReSubFrom(_, _, _, _)
ReSubFrom(s, open, close, pos) ==
    LET o == Find(s, open, pos)
        c == IF o = 0 THEN 0 ELSE Find(s, close, o + Len(open))
    IN  IF o = 0 \/ c = 0
        THEN SubSeq(s, pos, Len(s))
        ELSE SubSeq(s, pos, o - 1) \o ReSubFrom(s, open, close, c + Len(close))

ReSub(s, open, close) == ReSubFrom(s, open, close, 1)

\* the line boundaries str.splitlines() recognises (those of the alphabet)
LineBreaks == {"\n", "\r", "\f"}

\* str.splitlines(): the lines without their terminators; "\r\n" is one
\* terminator; a text that ends with a terminator yields no last empty line
RECURSIVE SplitFrom(_, _)
SplitFrom(s, pos) ==
    IF pos > Len(s) THEN <<>>
    ELSE LET B == {p \in pos..Len(s) : s[p] \in LineBreaks}
             j == IF B = {} THEN Len(s) + 1 ELSE MinOf(B)
             nxt == IF j < Len(s) /\ s[j] = "\r" /\ s[j + 1] = "\n"
                    THEN j + 2 ELSE j + 1
         IN  <<SubSeq(s, pos, j - 1)>> \o SplitFrom(s, nxt)

splitlines(s) == SplitFrom(s, 1)

\* '\n'.join(ls)
RECURSIVE join(_)
join(ls) ==
    IF ls = <<>> THEN <<>>
    ELSE IF Len(ls) = 1 THEN ls[1]
    ELSE ls[1] \o <<"\n">> \o join(Tail(ls))

\* the characters str.rstrip() removes (those of the alphabet)
Whitespace == {" ", "\t", "\n", "\r", "\f"}

\* str.rstrip()
RECURSIVE rstrip(_)
rstrip(s) ==
    IF s # <<>> /\ s[Len(s)] \in Whitespace
    THEN rstrip(SubSeq(s, 1, Len(s) - 1))
    ELSE s

\* str.endswith(m)
endswith(s, m) == Len(s) >= Len(m) /\ MatchAt(s, m, Len(s) - Len(m) + 1)

\* concatenation of a sequence of texts
RECURSIVE Flatten(_)
Flatten(ts) == IF ts = <<>> THEN <<>> ELSE ts[1] \o Flatten(Tail(ts))

\* all texts made of at most k tokens of T
TextsOf(T, k) == {Flatten(ts) : ts \in UNION {[1..m -> T] : m \in 0..k}}

\* the value of a variable that holds no text
NoneValue == <<"None">>

\* the character U+0060, which a TLA+ string cannot hold
Backtick == "BACKTICK"

HtmlOpen == <<"<", "!", "-", "-">>
HtmlClose == <<"-", "-", ">">>
BlockOpen == <<"/", "*">>
BlockClose == <<"*", "/">>
LineMark == <<"/", "/">>
Http == <<"h", "t", "t", "p", ":">>
Https == <<"h", "t", "t", "p", "s", ":">>

(***************************************************************************)
(* The strippers                                                           *)
(***************************************************************************)
strip_html(t) == ReSub(t, HtmlOpen, HtmlClose)

strip_css(t) == ReSub(t, BlockOpen, BlockClose)

\* the conditions of the branches of the line scan of strip_js
\* mutant: a backslash always escapes, also right after an escaping backslash
BackslashCaseAlways(ch, esc) == ch = "\\"

BackslashCase(ch, esc) == ch = "\\" /\ ~esc

SingleQuoteCase(ch, esc, dq, bt) == ch = "'" /\ ~esc /\ ~dq /\ ~bt

\* mutant: a double quote opens a string inside a single-quoted string
DoubleQuoteCaseNested(ch, esc, sq, bt) == ch = "\"" /\ ~esc /\ ~bt

DoubleQuoteCase(ch, esc, sq, bt) == ch = "\"" /\ ~esc /\ ~sq /\ ~bt

BacktickCase(ch, esc, sq, dq) == ch = Backtick /\ ~esc /\ ~sq /\ ~dq

\* mutant: the backtick context is not looked at
SlashSlashCaseInTemplate(ln, p, sq, dq, bt) ==
    /\ ln[p] = "/"
    /\ p + 1 <= Len(ln)
    /\ ln[p + 1] = "/"
    /\ ~sq /\ ~dq

\* mutant: the character after the slash is not looked at
SlashSlashCaseOneSlash(ln, p, sq, dq, bt) ==
    /\ ln[p] = "/"
    /\ ~sq /\ ~dq /\ ~bt

SlashSlashCase(ln, p, sq, dq, bt) ==
    /\ ln[p] = "/"
    /\ p + 1 <= Len(ln)
    /\ ln[p + 1] = "/"
    /\ ~sq /\ ~dq /\ ~bt

\* mutant: the emitted text is compared without rstrip()
ProtocolGuardNoStrip(chars) == endswith(chars, Http) \/ endswith(chars, Https)

ProtocolGuard(chars) ==
    LET prev == rstrip(chars)
    IN  endswith(prev, Http) \/ endswith(prev, Https)

\* the scan state at the start of a line
FreshScan ==
    [i |-> 1, sq |-> FALSE, dq |-> FALSE, bt |-> FALSE, esc |-> FALSE,
     out |-> <<>>, brk |-> FALSE]

\* one iteration of the while loop of strip_js on line ln in scan state st
ScanStep(ln, st) ==
    LET ch == ln[st.i]
    IN  IF BackslashCase(ch, st.esc)
        THEN [st EXCEPT !.esc = TRUE, !.out = Append(@, ch), !.i = @ + 1]
        ELSE IF SingleQuoteCase(ch, st.esc, st.dq, st.bt)
        THEN [st EXCEPT !.sq = ~@, !.out = Append(@, ch), !.i = @ + 1,
                        !.esc = FALSE]
        ELSE IF DoubleQuoteCase(ch, st.esc, st.sq, st.bt)
        THEN [st EXCEPT !.dq = ~@, !.out = Append(@, ch), !.i = @ + 1,
                        !.esc = FALSE]
        ELSE IF BacktickCase(ch, st.esc, st.sq, st.dq)
        THEN [st EXCEPT !.bt = ~@, !.out = Append(@, ch), !.i = @ + 1,
                        !.esc = FALSE]
        ELSE IF SlashSlashCase(ln, st.i, st.sq, st.dq, st.bt)
                /\ ~ProtocolGuard(st.out)
        THEN [st EXCEPT !.brk = TRUE]
        ELSE [st EXCEPT !.out = Append(@, ch), !.esc = FALSE, !.i = @ + 1]

\* the while loop of strip_js on one line: the characters kept
RECURSIVE ScanFrom(_, _)
ScanFrom(ln, st) ==
    IF st.brk \/ st.i > Len(ln) THEN st.out ELSE ScanFrom(ln, ScanStep(ln, st))

ScanLine(ln) == ScanFrom(ln, FreshScan)

strip_js(t) ==
    LET ls == splitlines(ReSub(t, BlockOpen, BlockClose))
    IN  join([k \in 1..Len(ls) |-> ScanLine(ls[k])])

(***************************************************************************)
(* process_file                                                            *)
(***************************************************************************)
\* str.lower() on the letters of the alphabet
ToLower ==
    [c \in {"H", "T", "M", "L", "C", "S", "J", "X"} |->
        CASE c = "H" -> "h" [] c = "T" -> "t" [] c = "M" -> "m"
          [] c = "L" -> "l" [] c = "C" -> "c" [] c = "S" -> "s"
          [] c = "J" -> "j" [] c = "X" -> "x"]

lower(t) ==
    [k \in 1..Len(t) |-> IF t[k] \in DOMAIN ToLower THEN ToLower[t[k]] ELSE t[k]]

DotHtml == <<".", "h", "t", "m", "l">>
DotHtm == <<".", "h", "t", "m">>
DotCss == <<".", "c", "s", "s">>
DotJs == <<".", "j", "s">>

\* the decoding of Path.read_text(): universal newlines, "\r\n" and "\r"
\* are read as "\n"
RECURSIVE read_text(_)
read_text(data) ==
    IF data = <<>> THEN <<>>
    ELSE IF Len(data) >= 2 /\ data[1] = "\r" /\ data[2] = "\n"
    THEN <<"\n">> \o read_text(SubSeq(data, 3, Len(data)))
    ELSE IF data[1] = "\r"
    THEN <<"\n">> \o read_text(Tail(data))
    ELSE <<data[1]>> \o read_text(Tail(data))

\* the encoding of Path.write_text() where os.linesep is "\n"
write_text(t) == t

\* read_text raises: the path is a directory or its bytes are not UTF-8
ReadFails(p) == ~p.is_file \/ ~p.utf8

\* the stripper process_file chooses for a suffix, NoneValue in the else branch
Dispatch(suffix, t) ==
    IF suffix = DotHtml \/ suffix = DotHtm THEN strip_html(t)
    ELSE IF suffix = DotCss THEN strip_css(t)
    ELSE IF suffix = DotJs THEN strip_js(t)
    ELSE NoneValue

HasStripper(suffix) == suffix \in {DotHtml, DotHtm, DotCss, DotJs}

\* mutant: the file is written whether or not the text changed
DiffersAlways(t, o) == TRUE

\* if text != orig
Differs(t, o) == t # o

\* process_file(p) with data on disk: the branch taken, the locals, the
\* return value and the data on disk afterwards
process_file(p, data) ==
    IF ReadFails(p)
    THEN [branch |-> "except", orig |-> NoneValue, text |-> NoneValue,
          ok |-> FALSE, data |-> data]
    ELSE LET o == read_text(data)
             suffix == lower(p.suffix)
         IN  IF ~HasStripper(suffix)
             THEN [branch |-> "else", orig |-> o, text |-> o, ok |-> FALSE,
                   data |-> data]
             ELSE LET t == Dispatch(suffix, o)
                  IN  IF Differs(t, o)
                      THEN [branch |-> "write", orig |-> o, text |-> t,
                            ok |-> TRUE, data |-> write_text(t)]
                      ELSE [branch |-> "same", orig |-> o, text |-> t,
                            ok |-> FALSE, data |-> data]

(***************************************************************************)
(* strip_js step by step: one action per statement or branch of it         *)
(***************************************************************************)
JsTokens ==
    {<<"\\">>, <<"'">>, <<"\"">>, <<Backtick>>, <<"/">>, <<"*">>, <<" ">>,
     <<"x">>, <<"\n">>, Http, Https}

JsInputs == TextsOf(JsTokens, MaxTokens)

\* the line the for loop is at
line == lines[li]

\* process_file and main are not running
FileIdle ==
    /\ path = [suffix |-> <<>>, is_file |-> TRUE, utf8 |-> TRUE]
    /\ disk = <<>>
    /\ orig = NoneValue
    /\ text = NoneValue
    /\ ok = FALSE
    /\ runs = 0

WalkIdle ==
    /\ files = <<>>
    /\ fs = <<>>
    /\ fs0 = <<>>
    /\ f = 1
    /\ touched = 0
    /\ changed = 0
    /\ reads = <<>>
    /\ writes = <<>>
    /\ stdout = <<>>
    /\ wpc = "idle"

JsInit ==
    /\ FileIdle
    /\ WalkIdle
    /\ content \in JsInputs
    /\ lines = <<>>
    /\ li = 0
    /\ i = 1
    /\ in_sq = FALSE /\ in_dq = FALSE /\ in_bt = FALSE
    /\ escaped = FALSE
    /\ result_chars = <<>>
    /\ out_lines = <<>>
    /\ ret = NoneValue
    /\ pc = "start"

\* content = re.sub(...); out_lines = []; the for loop takes content.splitlines()
RemoveBlockComments ==
    /\ pc = "start"
    /\ content' = ReSub(content, BlockOpen, BlockClose)
    /\ lines' = splitlines(content')
    /\ out_lines' = <<>>
    /\ pc' = "for"
    /\ UNCHANGED <<varsFile, varsWalk>>
    /\ UNCHANGED <<li, i, in_sq, in_dq, in_bt, escaped, result_chars, ret>>

\* the for loop takes the next line and resets the scan state
NextLine ==
    /\ pc = "for"
    /\ li < Len(lines)
    /\ li' = li + 1
    /\ i' = 1
    /\ in_sq' = FALSE /\ in_dq' = FALSE /\ in_bt' = FALSE
    /\ escaped' = FALSE
    /\ result_chars' = <<>>
    /\ pc' = "scan"
    /\ UNCHANGED <<varsFile, varsWalk>>
    /\ UNCHANGED <<content, lines, out_lines, ret>>

\* while i < n
InLoop == pc = "scan" /\ i <= Len(line)

Backslash ==
    /\ InLoop
    /\ BackslashCase(line[i], escaped)
    /\ escaped' = TRUE
    /\ result_chars' = Append(result_chars, line[i])
    /\ i' = i + 1
    /\ UNCHANGED <<varsFile, varsWalk>>
    /\ UNCHANGED <<content, lines, li, in_sq, in_dq, in_bt, out_lines, ret, pc>>

SingleQuote ==
    /\ InLoop
    /\ ~BackslashCase(line[i], escaped)
    /\ SingleQuoteCase(line[i], escaped, in_dq, in_bt)
    /\ in_sq' = ~in_sq
    /\ result_chars' = Append(result_chars, line[i])
    /\ i' = i + 1
    /\ escaped' = FALSE
    /\ UNCHANGED <<varsFile, varsWalk>>
    /\ UNCHANGED <<content, lines, li, in_dq, in_bt, out_lines, ret, pc>>

DoubleQuote ==
    /\ InLoop
    /\ ~BackslashCase(line[i], escaped)
    /\ ~SingleQuoteCase(line[i], escaped, in_dq, in_bt)
    /\ DoubleQuoteCase(line[i], escaped, in_sq, in_bt)
    /\ in_dq' = ~in_dq
    /\ result_chars' = Append(result_chars, line[i])
    /\ i' = i + 1
    /\ escaped' = FALSE
    /\ UNCHANGED <<varsFile, varsWalk>>
    /\ UNCHANGED <<content, lines, li, in_sq, in_bt, out_lines, ret, pc>>

BacktickQuote ==
    /\ InLoop
    /\ ~BackslashCase(line[i], escaped)
    /\ ~SingleQuoteCase(line[i], escaped, in_dq, in_bt)
    /\ ~DoubleQuoteCase(line[i], escaped, in_sq, in_bt)
    /\ BacktickCase(line[i], escaped, in_sq, in_dq)
    /\ in_bt' = ~in_bt
    /\ result_chars' = Append(result_chars, line[i])
    /\ i' = i + 1
    /\ escaped' = FALSE
    /\ UNCHANGED <<varsFile, varsWalk>>
    /\ UNCHANGED <<content, lines, li, in_sq, in_dq, out_lines, ret, pc>>

\* none of the four branches that end in continue is taken
FallsThrough ==
    /\ InLoop
    /\ ~BackslashCase(line[i], escaped)
    /\ ~SingleQuoteCase(line[i], escaped, in_dq, in_bt)
    /\ ~DoubleQuoteCase(line[i], escaped, in_sq, in_bt)
    /\ ~BacktickCase(line[i], escaped, in_sq, in_dq)

\* break: the rest of the line is a comment
LineComment ==
    /\ FallsThrough
    /\ SlashSlashCase(line, i, in_sq, in_dq, in_bt)
    /\ ~ProtocolGuard(result_chars)
    /\ pc' = "break"
    /\ UNCHANGED <<varsFile, varsWalk>>
    /\ UNCHANGED <<content, lines, li, i, in_sq, in_dq, in_bt, escaped,
                   result_chars, out_lines, ret>>

\* result_chars.append(ch); escaped = False; i += 1
CopyChar ==
    /\ FallsThrough
    /\ ~(SlashSlashCase(line, i, in_sq, in_dq, in_bt)
            /\ ~ProtocolGuard(result_chars))
    /\ result_chars' = Append(result_chars, line[i])
    /\ escaped' = FALSE
    /\ i' = i + 1
    /\ UNCHANGED <<varsFile, varsWalk>>
    /\ UNCHANGED <<content, lines, li, in_sq, in_dq, in_bt, out_lines, ret, pc>>

\* out_lines.append(''.join(result_chars)), after the loop ended or broke
EndLine ==
    /\ pc = "break" \/ (pc = "scan" /\ i > Len(line))
    /\ out_lines' = Append(out_lines, result_chars)
    /\ pc' = "for"
    /\ UNCHANGED <<varsFile, varsWalk>>
    /\ UNCHANGED <<content, lines, li, i, in_sq, in_dq, in_bt, escaped,
                   result_chars, ret>>

\* return '\n'.join(out_lines)
Return ==
    /\ pc = "for"
    /\ li = Len(lines)
    /\ ret' = join(out_lines)
    /\ pc' = "done"
    /\ UNCHANGED <<varsFile, varsWalk>>
    /\ UNCHANGED <<content, lines, li, i, in_sq, in_dq, in_bt, escaped,
                   result_chars, out_lines>>

JsNext ==
    \/ RemoveBlockComments
    \/ NextLine
    \/ Backslash
    \/ SingleQuote
    \/ DoubleQuote
    \/ BacktickQuote
    \/ LineComment
    \/ CopyChar
    \/ EndLine
    \/ Return

SpecJs == JsInit /\ [][JsNext]_vars

(***************************************************************************)
(* process_file called repeatedly on one path                              *)
(***************************************************************************)
JsIdle ==
    /\ content = <<>>
    /\ lines = <<>>
    /\ li = 0
    /\ i = 1
    /\ in_sq = FALSE /\ in_dq = FALSE /\ in_bt = FALSE
    /\ escaped = FALSE
    /\ result_chars = <<>>
    /\ out_lines = <<>>
    /\ ret = NoneValue
    /\ pc = "idle"

FileTokens ==
    {HtmlOpen, HtmlClose, BlockOpen, BlockClose, <<"/">>, <<"x">>, <<"\n">>,
     <<"\r">>}

FileInputs == TextsOf(FileTokens, MaxStripTokens)

FileSuffixes ==
    {DotHtml, <<".", "H", "T", "M">>, DotCss, <<".", "J", "s">>,
     <<".", "t", "x", "t">>}

\* number of calls of process_file on the path
MaxRuns == 2

FileInit ==
    /\ JsIdle
    /\ WalkIdle
    /\ \E sfx \in FileSuffixes, u \in BOOLEAN :
          path = [suffix |-> sfx, is_file |-> TRUE, utf8 |-> u]
    /\ disk \in (IF path.utf8 THEN FileInputs ELSE {<<"x">>})
    /\ orig = NoneValue
    /\ text = NoneValue
    /\ ok = FALSE
    /\ runs = 0

\* read_text raised: return False
FileUnreadable ==
    /\ runs < MaxRuns
    /\ process_file(path, disk).branch = "except"
    /\ orig' = process_file(path, disk).orig
    /\ text' = process_file(path, disk).text
    /\ ok' = process_file(path, disk).ok
    /\ disk' = process_file(path, disk).data
    /\ runs' = runs + 1
    /\ UNCHANGED <<path, varsJs, varsWalk>>

\* no stripper for the suffix: return False
FileNotRecognized ==
    /\ runs < MaxRuns
    /\ process_file(path, disk).branch = "else"
    /\ orig' = process_file(path, disk).orig
    /\ text' = process_file(path, disk).text
    /\ ok' = process_file(path, disk).ok
    /\ disk' = process_file(path, disk).data
    /\ runs' = runs + 1
    /\ UNCHANGED <<path, varsJs, varsWalk>>

\* text != orig: the file is written, return True
FileWritten ==
    /\ runs < MaxRuns
    /\ process_file(path, disk).branch = "write"
    /\ orig' = process_file(path, disk).orig
    /\ text' = process_file(path, disk).text
    /\ ok' = process_file(path, disk).ok
    /\ disk' = process_file(path, disk).data
    /\ runs' = runs + 1
    /\ UNCHANGED <<path, varsJs, varsWalk>>

\* text == orig: return False
FileUnchanged ==
    /\ runs < MaxRuns
    /\ process_file(path, disk).branch = "same"
    /\ orig' = process_file(path, disk).orig
    /\ text' = process_file(path, disk).text
    /\ ok' = process_file(path, disk).ok
    /\ disk' = process_file(path, disk).data
    /\ runs' = runs + 1
    /\ UNCHANGED <<path, varsJs, varsWalk>>

FileNext ==
    \/ FileUnreadable
    \/ FileNotRecognized
    \/ FileWritten
    \/ FileUnchanged

SpecFile == FileInit /\ [][FileNext]_vars

(***************************************************************************)
(* main: one action per iteration of the loop over the paths, process_file *)
(* included; the default specification                                     *)
(***************************************************************************)
Exts == {DotHtml, DotHtm, DotCss, DotJs}

\* mutant: is_file() is not asked
MatchesAnyEntry(p) == lower(p.suffix) \in Exts

\* f.is_file() and f.suffix.lower() in exts
Matches(p) == p.is_file /\ lower(p.suffix) \in Exts

WalkSuffixes ==
    {DotHtml, <<".", "H", "T", "M">>, DotCss, <<".", "J", "s">>,
     <<".", "t", "x", "t">>, <<>>}

WalkData ==
    {<<"x">>, <<"x", "\r", "\n">>,
     HtmlOpen \o <<"x">> \o HtmlClose \o BlockOpen \o <<"x">> \o BlockClose}

\* what rglob can return: directories, files that are not UTF-8, text files
Entries ==
    {[suffix |-> sfx, is_file |-> FALSE, utf8 |-> TRUE, data |-> <<>>] :
        sfx \in WalkSuffixes}
    \cup
    {[suffix |-> sfx, is_file |-> TRUE, utf8 |-> FALSE, data |-> <<"x">>] :
        sfx \in WalkSuffixes}
    \cup
    {[suffix |-> sfx, is_file |-> TRUE, utf8 |-> TRUE, data |-> d] :
        sfx \in WalkSuffixes, d \in WalkData}

Init ==
    /\ JsIdle
    /\ FileIdle
    /\ \E m \in 0..MaxFiles : \E es \in [1..m -> Entries] :
          /\ files = [k \in 1..m |->
                        [suffix |-> es[k].suffix, is_file |-> es[k].is_file,
                         utf8 |-> es[k].utf8]]
          /\ fs = [k \in 1..m |-> es[k].data]
    /\ fs0 = fs
    /\ f = 1
    /\ touched = 0
    /\ changed = 0
    /\ reads = [k \in 1..Len(files) |-> 0]
    /\ writes = [k \in 1..Len(files) |-> 0]
    /\ stdout = <<>>
    /\ wpc = "loop"

\* the for loop is at entry f
AtEntry == wpc = "loop" /\ f <= Len(files)

\* the if of the loop body is false: nothing happens
SkipEntry ==
    /\ AtEntry
    /\ ~Matches(files[f])
    /\ f' = f + 1
    /\ UNCHANGED <<files, fs, fs0, touched, changed, reads, writes, stdout, wpc>>
    /\ UNCHANGED <<varsJs, varsFile>>

\* touched += 1; process_file returns False from its except branch
TouchUnreadable ==
    /\ AtEntry
    /\ Matches(files[f])
    /\ process_file(files[f], fs[f]).branch = "except"
    /\ touched' = touched + 1
    /\ reads' = [reads EXCEPT ![f] = @ + 1]
    /\ f' = f + 1
    /\ UNCHANGED <<files, fs, fs0, changed, writes, stdout, wpc>>
    /\ UNCHANGED <<varsJs, varsFile>>

\* touched += 1; process_file finds text == orig and returns False
TouchUnchanged ==
    /\ AtEntry
    /\ Matches(files[f])
    /\ process_file(files[f], fs[f]).branch \in {"same", "else"}
    /\ touched' = touched + 1
    /\ reads' = [reads EXCEPT ![f] = @ + 1]
    /\ f' = f + 1
    /\ UNCHANGED <<files, fs, fs0, changed, writes, stdout, wpc>>
    /\ UNCHANGED <<varsJs, varsFile>>

\* touched += 1; process_file writes the file and returns True;
\* changed += 1 and the file is printed
TouchModified ==
    /\ AtEntry
    /\ Matches(files[f])
    /\ process_file(files[f], fs[f]).branch = "write"
    /\ touched' = touched + 1
    /\ reads' = [reads EXCEPT ![f] = @ + 1]
    /\ writes' = [writes EXCEPT ![f] = @ + 1]
    /\ fs' = [fs EXCEPT ![f] = process_file(files[f], fs[f]).data]
    /\ changed' = changed + 1
    /\ stdout' = Append(stdout, <<"Stripped comments", f>>)
    /\ f' = f + 1
    /\ UNCHANGED <<files, fs0, wpc>>
    /\ UNCHANGED <<varsJs, varsFile>>

\* touched += 1; write_text cannot open the file and raises: nothing catches
\* the exception and the run ends without a summary
WriteRaises ==
    /\ AtEntry
    /\ Matches(files[f])
    /\ process_file(files[f], fs[f]).branch = "write"
    /\ touched' = touched + 1
    /\ reads' = [reads EXCEPT ![f] = @ + 1]
    /\ wpc' = "raised"
    /\ UNCHANGED <<files, fs, fs0, f, changed, writes, stdout>>
    /\ UNCHANGED <<varsJs, varsFile>>

\* print(f"Processed {touched} files; modified {changed} files.")
PrintSummary ==
    /\ wpc = "loop"
    /\ f > Len(files)
    /\ stdout' = Append(stdout, <<"Processed", touched, changed>>)
    /\ wpc' = "done"
    /\ UNCHANGED <<files, fs, fs0, f, touched, changed, reads, writes>>
    /\ UNCHANGED <<varsJs, varsFile>>

Next ==
    \/ SkipEntry
    \/ TouchUnreadable
    \/ TouchUnchanged
    \/ TouchModified
    \/ WriteRaises
    \/ PrintSummary

Spec == Init /\ [][Next]_vars

(***************************************************************************)
(* Properties of the line scan of strip_js                                 *)
(***************************************************************************)
AnyString == in_sq \/ in_dq \/ in_bt

\* the scan consumes the character at the cursor in this step
Consumes == InLoop /\ pc' = "scan" /\ i' = i + 1

\* the emitted text, trailing whitespace removed, ends with http: or https:
AfterProtocol(chars) ==
    \/ endswith(rstrip(chars), <<"h", "t", "t", "p", ":">>)
    \/ endswith(rstrip(chars), <<"h", "t", "t", "p", "s", ":">>)

\* the cursor is on two consecutive slashes
AtSlashSlash == i + 1 <= Len(line) /\ line[i] = "/" /\ line[i + 1] = "/"

\* the output of the whole function, computed by the operators
JsAgrees ==
    pc = "done" => ret = join([k \in 1..Len(lines) |-> ScanLine(lines[k])])

\* C4: a // met while a string context is active never ends the scan of the
\* line: every character scanned while a flag is active is copied to the
\* output and the scan goes on, and where a line was truncated all three
\* string-context flags are false.
C4_StringStep ==
    (InLoop /\ AnyString) =>
        /\ pc' = "scan"
        /\ i' = i + 1
        /\ result_chars' = Append(result_chars, line[i])

C4_NoCommentInString ==
    /\ [](pc = "break" => ~in_sq /\ ~in_dq /\ ~in_bt)
    /\ [][C4_StringStep]_vars

\* a // inside a backtick string (after an interpolation opener or not) was
\* scanned and copied
C4_Witness ==
    /\ pc = "scan"
    /\ in_bt
    /\ i >= 4
    /\ line[i - 2] = "/" /\ line[i - 1] = "/"
    /\ result_chars = SubSeq(line, 1, i - 1)

\* C5: at //, outside every string context, with the emitted text (trailing
\* whitespace removed) ending with http: or https:, the slash is copied and
\* the cursor advances by one; a line made of a URL scheme, //, and plain
\* characters is never truncated.
C5_GuardStep ==
    (InLoop /\ AtSlashSlash /\ ~AnyString /\ AfterProtocol(result_chars)) =>
        /\ pc' = "scan"
        /\ i' = i + 1
        /\ result_chars' = Append(result_chars, "/")

UrlLines ==
    {p \o h \o <<"/", "/">> \o q :
        p \in {<<>>, <<"x">>, <<" ">>}, h \in {Http, Https},
        q \in {<<>>, <<"x">>, <<" ">>}}

C5_ProtocolKept ==
    /\ [][C5_GuardStep]_vars
    /\ [](pc = "break" => line \notin UrlLines)
    /\ [][(pc \in {"scan", "break"} /\ line \in UrlLines /\ pc' = "for")
            => out_lines' = Append(out_lines, line)]_vars

\* the // after "http: " (a space between) was kept and the line ended
C5_Witness ==
    /\ pc = "for"
    /\ li >= 1
    /\ lines[li] = Http \o <<" ", "/", "/">>
    /\ out_lines[li] = lines[li]

\* C8: at most one string-context flag is true at any cursor position, a
\* flag changes only at its own quote character met unescaped while neither
\* other flag is active (and then it does change), and every line starts
\* with all flags false.
AtMostOneString ==
    /\ ~(in_sq /\ in_dq)
    /\ ~(in_sq /\ in_bt)
    /\ ~(in_dq /\ in_bt)

C8_ToggleStep ==
    InLoop =>
        /\ (in_sq' # in_sq) <=>
               (line[i] = "'" /\ ~escaped /\ ~in_dq /\ ~in_bt)
        /\ (in_dq' # in_dq) <=>
               (line[i] = "\"" /\ ~escaped /\ ~in_sq /\ ~in_bt)
        /\ (in_bt' # in_bt) <=>
               (line[i] = Backtick /\ ~escaped /\ ~in_sq /\ ~in_dq)

C8_StringContexts ==
    /\ [](pc \in {"scan", "break"} => AtMostOneString)
    /\ [](pc = "scan" /\ i = 1 => ~in_sq /\ ~in_dq /\ ~in_bt)
    /\ [][C8_ToggleStep]_vars

\* the second line starts although the first one ended inside a string,
\* and a quote of another kind was met inside a string
C8_Witness ==
    /\ pc = "scan"
    /\ li = 2
    /\ i = 1
    /\ lines[1] = <<"\"", "'">>
    /\ out_lines = <<lines[1]>>

\* C9: escaped is true exactly after a backslash consumed while escaped was
\* false; it is false at the start of a line and after any other character;
\* a quote consumed while escaped is true toggles no flag.
C9_EscapeStep ==
    InLoop =>
        /\ Consumes => (escaped' <=> (line[i] = "\\" /\ ~escaped))
        /\ ~Consumes => (pc' = "break" /\ escaped' = escaped)
        /\ (escaped /\ line[i] \in {"'", "\"", Backtick}) =>
               (Consumes /\ in_sq' = in_sq /\ in_dq' = in_dq /\ in_bt' = in_bt)

C9_Escaped ==
    /\ [](pc = "scan" /\ i = 1 => ~escaped)
    /\ [][C9_EscapeStep]_vars

\* an escaped quote inside a string was consumed and the string goes on
C9_Witness ==
    /\ pc = "scan"
    /\ i = 4
    /\ SubSeq(line, 1, 3) = <<"'", "\\", "'">>
    /\ in_sq
    /\ ~escaped

\* C10: the scan of a line terminates and yields a prefix of the line: it
\* stops at the first // met outside every string context where the emitted
\* text (trailing whitespace removed) ends with neither http: nor https:,
\* drops the rest, and otherwise copies character by character.
IsCommentStart == AtSlashSlash /\ ~AnyString /\ ~AfterProtocol(SubSeq(line, 1, i - 1))

C10_ScanStep ==
    InLoop =>
        IF IsCommentStart
        THEN pc' = "break" /\ i' = i /\ result_chars' = result_chars
        ELSE pc' = "scan" /\ i' = i + 1

C10_EndStep ==
    (pc = "break" \/ (pc = "scan" /\ i > Len(line))) =>
        /\ pc' = "for"
        /\ out_lines' = Append(out_lines, SubSeq(line, 1, i - 1))

C10_LinePrefix ==
    /\ [](pc \in {"scan", "break"} =>
            /\ i \in 1..(Len(line) + 1)
            /\ result_chars = SubSeq(line, 1, i - 1))
    /\ [](pc \in {"for", "done"} =>
            /\ Len(out_lines) = li
            /\ \A k \in 1..li : \E m \in 0..Len(lines[k]) :
                   out_lines[k] = SubSeq(lines[k], 1, m))
    /\ [](pc = "break" => IsCommentStart)
    /\ [][C10_ScanStep]_vars
    /\ [][C10_EndStep]_vars

\* a line was truncated at a // that follows a quoted string
C10_Witness ==
    /\ pc = "for"
    /\ li = 1
    /\ lines[1] = <<"'", "'", "/", "/">>
    /\ out_lines = <<SubSeq(lines[1], 1, 2)>>

(***************************************************************************)
(* Properties of process_file and of the strippers as it applies them      *)
(***************************************************************************)
Occurs(m, t) == Find(t, m, 1) # 0

\* the text holds none of the comment markers of the stripper of the suffix
NoMarkers(suffix, t) ==
    IF suffix \in {DotHtml, DotHtm}
    THEN ~Occurs(HtmlOpen, t) /\ ~Occurs(HtmlClose, t)
    ELSE IF suffix = DotCss
    THEN ~Occurs(BlockOpen, t) /\ ~Occurs(BlockClose, t)
    ELSE ~Occurs(BlockOpen, t) /\ ~Occurs(BlockClose, t) /\ ~Occurs(LineMark, t)

\* process_file has read the file of a recognized suffix and stripped it
Stripped == runs >= 1 /\ ~ReadFails(path) /\ HasStripper(lower(path.suffix))

\* C1: a text without any comment marker of its stripper comes back equal
\* to the input, whatever its line terminators, and process_file returns
\* False for it.
C1_UnmarkedUnchanged ==
    (Stripped /\ NoMarkers(lower(path.suffix), orig)) =>
        (text = orig /\ ok = FALSE)

\* C2: each stripper is idempotent: the second call of process_file on a
\* file reads what the first call left, strips it to the same text and
\* returns False.
C2_Idempotent ==
    (Stripped /\ runs = 2) => (text = orig /\ ok = FALSE)

(***************************************************************************)
(* Properties of main                                                      *)
(***************************************************************************)
CasePairs ==
    {<<"H", "h">>, <<"T", "t">>, <<"M", "m">>, <<"L", "l">>, <<"C", "c">>,
     <<"S", "s">>, <<"J", "j">>, <<"X", "x">>}

SameLetter(a, b) == a = b \/ <<a, b>> \in CasePairs \/ <<b, a>> \in CasePairs

EqualsIgnoringCase(a, b) ==
    Len(a) = Len(b) /\ \A k \in 1..Len(a) : SameLetter(a[k], b[k])

\* a regular file whose extension is .html, .htm, .css or .js in any case
IsRecognized(p) ==
    /\ p.is_file
    /\ \E e \in {<<".", "h", "t", "m", "l">>, <<".", "h", "t", "m">>,
                  <<".", "c", "s", "s">>, <<".", "j", "s">>} :
          EqualsIgnoringCase(p.suffix, e)

RECURSIVE SumOf(_)
SumOf(q) == IF q = <<>> THEN 0 ELSE q[1] + SumOf(Tail(q))

\* the text process_file reads from entry k and the text its stripper returns
TextRead(k) == read_text(fs0[k])
TextStripped(k) == Dispatch(lower(files[k].suffix), TextRead(k))

\* C3: a recognized file that cannot be read as UTF-8 is skipped: neither
\* the touched nor the modified count grows, nothing is written or printed,
\* and the walker goes on with the next entry.
C3_UnreadableStep ==
    (AtEntry /\ IsRecognized(files[f]) /\ ~files[f].utf8) =>
        /\ touched' = touched
        /\ changed' = changed
        /\ fs' = fs
        /\ writes' = writes
        /\ stdout' = stdout
        /\ wpc' = "loop"
        /\ f' = f + 1

C3_UnreadableNotCounted == [][C3_UnreadableStep]_vars

\* C6: an entry that is not a regular file with one of the four extensions
\* (in any case) is neither read nor written nor counted and keeps its
\* content; the entries counted as touched are the others.
C6_OtherStep ==
    (AtEntry /\ ~IsRecognized(files[f])) =>
        /\ UNCHANGED <<touched, changed, reads, writes, fs, stdout, wpc>>
        /\ f' = f + 1

C6_RecognizedStep ==
    (AtEntry /\ IsRecognized(files[f])) => touched' = touched + 1

C6_OnlyRecognized ==
    /\ [](\A k \in 1..Len(files) :
            ~IsRecognized(files[k]) =>
                reads[k] = 0 /\ writes[k] = 0 /\ fs[k] = fs0[k])
    /\ [][C6_OtherStep]_vars
    /\ [][C6_RecognizedStep]_vars

\* a run ended in which a .txt file that a stripper would change and a file
\* with an upper-case extension were met, and only the second was touched
C6_Witness ==
    /\ wpc = "done"
    /\ touched = 1
    /\ \E j, k \in 1..Len(files) :
          /\ files[j].is_file
          /\ files[j].suffix = <<".", "t", "x", "t">>
          /\ fs[j] # strip_js(fs[j])
          /\ files[k].suffix = <<".", "H", "T", "M">>
          /\ writes[k] = 1

\* C7: an entry is written exactly when it was read and its stripped text
\* differs from the text read, and then it holds the stripped text; the
\* modified count is the number of files written and of files printed, it
\* is at most the touched count, and no entry is read or written twice.
C7_WrittenIffDiffers ==
    /\ changed = SumOf(writes)
    /\ changed = Cardinality({n \in 1..Len(stdout) :
                                 stdout[n][1] = "Stripped comments"})
    /\ changed <= touched
    /\ \A k \in 1..Len(files) :
          /\ reads[k] <= 1
          /\ writes[k] <= 1
          /\ writes[k] = 1 =>
                /\ reads[k] = 1
                /\ files[k].utf8
                /\ TextStripped(k) # TextRead(k)
                /\ fs[k] = TextStripped(k)
          /\ writes[k] = 0 => fs[k] = fs0[k]
          /\ (k < f /\ IsRecognized(files[k]) /\ files[k].utf8
                /\ TextStripped(k) # TextRead(k)) => writes[k] = 1

\* a run ended in which one file was written and another one, whose text
\* has no comment, was read and left alone
C7_Witness ==
    /\ wpc = "done"
    /\ touched = 2
    /\ changed = 1
    /\ \E k \in 1..Len(files) :
          reads[k] = 1 /\ writes[k] = 0 /\ files[k].utf8

====
